---- MODULE Spec2Model ----
(***************************************************************************)
(* FirestoreUtil (src/src/firebase/firestore/index.ts): path addressing,   *)
(* the payload sanitizer, upsert and its read-then-write window.           *)
(*                                                                         *)
(* Strings the code inspects character by character (paths, ids) are       *)
(* sequences of one-character strings.  A field key is the sequence of its *)
(* dot-separated parts: <<"a","x">> is the key "a.x".  Values are tagged   *)
(* records; a plain object is Map(m) with m a function from keys to values.*)
(***************************************************************************)
EXTENDS Integers, Sequences, FiniteSets, TLC

VARIABLES
  rs,     \* address resolution under test: operation, path, docId, outcome
  sz,     \* sanitizer under test: input record, output record
  store,  \* the database: per document reference, whether it exists and its fields
  cl,     \* per caller: the position in its call, its arguments and locals
  tw,     \* the caller that upserts the same data twice: what it saw of the store
  wr,     \* payload construction under test: operation, data, the driver call made
  cr,     \* the caller of create/read/list/update/delete: its last call and what it returned
  qs,     \* the caller of queryDocuments: the collection's documents, its options, its pages
  dr      \* the driver: the calls that fail for a reason of its own

vars == <<rs, sz, store, cl, tw, wr, cr, qs, dr>>

(***************************************************************************)
(* Bounds                                                                  *)
(***************************************************************************)
MaxPathLen == 5   \* longest path, in characters
MaxDepth == 2     \* deepest nesting of plain records in a sanitizer input

(***************************************************************************)
(* Paths and ids                                                           *)
(***************************************************************************)
Slash == "/"
PathChars == {"a", "b", Slash}
NoId == << >>                 \* docId null, undefined or "" (all falsy)
Ids == {NoId, <<"d">>}

RECURSIVE StringsOfLen(_)
StringsOfLen(n) ==
  IF n = 0 THEN {<< >>}
  ELSE {<<c>> \o s : c \in PathChars, s \in StringsOfLen(n - 1)}

Paths == UNION {StringsOfLen(n) : n \in 1..MaxPathLen}

\* path.split("/"): the pieces between separators, empty pieces included.
RECURSIVE Split(_)
Split(s) ==
  IF s = << >> THEN << << >> >>
  ELSE IF Head(s) = Slash THEN << << >> >> \o Split(Tail(s))
  ELSE LET rest == Split(Tail(s))
       IN  << <<Head(s)>> \o Head(rest) >> \o Tail(rest)

\* path.includes("/")
Includes(s, c) == \E i \in 1..Len(s) : s[i] = c

\* `${path}/${docId}`
JoinPath(path, docId) == path \o <<Slash>> \o docId

\* if (docId): a non-empty string is truthy
Truthy(docId) == docId # << >>

(***************************************************************************)
(* The driver calls that build a reference, recorded as made               *)
(***************************************************************************)
DbCollectionDoc(path, docId) ==
  [ctor |-> "collection.doc", arg |-> path, id |-> docId, err |-> "none"]
DbDoc(path) ==
  [ctor |-> "doc", arg |-> path, id |-> NoId, err |-> "none"]
DbCollectionNewDoc(path) ==
  [ctor |-> "collection.doc()", arg |-> path, id |-> NoId, err |-> "none"]
DbCollection(path) ==
  [ctor |-> "collection", arg |-> path, id |-> NoId, err |-> "none"]
DbDocParent(path) ==
  [ctor |-> "doc.parent", arg |-> path, id |-> NoId, err |-> "none"]
Thrown(msg) ==
  [ctor |-> "none", arg |-> << >>, id |-> NoId, err |-> msg]

AutoIdMsg == "Auto-generated document IDs are only supported for top-level collections"
OddSegmentsMsg == "Invalid document path - must contain odd number of segments when docId is omitted"

(***************************************************************************)
(* Address resolution, one definition per operation as the code repeats it *)
(***************************************************************************)
setCompoundedDocumentRef_AutoIdByParity(path, docId) ==
  IF Truthy(docId)
  THEN IF Len(Split(path)) % 2 = 0
       THEN DbCollectionDoc(path, docId)
       ELSE DbDoc(JoinPath(path, docId))
  ELSE IF Len(Split(path)) % 2 = 0
       THEN Thrown(AutoIdMsg)
       ELSE DbCollectionNewDoc(path)

setCompoundedDocumentRef(path, docId) ==
  IF Truthy(docId)
  THEN IF Len(Split(path)) % 2 = 0
       THEN DbCollectionDoc(path, docId)
       ELSE DbDoc(JoinPath(path, docId))
  ELSE IF Includes(path, Slash)
       THEN Thrown(AutoIdMsg)
       ELSE DbCollectionNewDoc(path)

getDocumentRef_ParityFlipped(path, docId) ==
  IF Truthy(docId)
  THEN IF Len(Split(path)) % 2 = 1
       THEN DbCollectionDoc(path, docId)
       ELSE DbDoc(JoinPath(path, docId))
  ELSE IF Len(Split(path)) % 2 # 1
       THEN Thrown(OddSegmentsMsg)
       ELSE DbDoc(path)

getDocumentRef_NoPathCheck(path, docId) ==
  IF Truthy(docId)
  THEN IF Len(Split(path)) % 2 = 0
       THEN DbCollectionDoc(path, docId)
       ELSE DbDoc(JoinPath(path, docId))
  ELSE DbDoc(path)

getDocumentRef(path, docId) ==
  IF Truthy(docId)
  THEN IF Len(Split(path)) % 2 = 0
       THEN DbCollectionDoc(path, docId)
       ELSE DbDoc(JoinPath(path, docId))
  ELSE IF Len(Split(path)) % 2 # 1
       THEN Thrown(OddSegmentsMsg)
       ELSE DbDoc(path)

getDocumentsRef(path, docId) ==
  IF Truthy(docId)
  THEN IF Len(Split(path)) % 2 = 0
       THEN DbCollectionDoc(path, docId)
       ELSE DbDoc(JoinPath(path, docId))
  ELSE IF Len(Split(path)) % 2 = 1
       THEN DbCollection(path)
       ELSE DbDocParent(path)

editDocumentRef_NoPathCheck(path, docId) ==
  IF Truthy(docId)
  THEN IF Len(Split(path)) % 2 = 0
       THEN DbCollectionDoc(path, docId)
       ELSE DbDoc(JoinPath(path, docId))
  ELSE DbDoc(path)

editDocumentRef(path, docId) ==
  IF Truthy(docId)
  THEN IF Len(Split(path)) % 2 = 0
       THEN DbCollectionDoc(path, docId)
       ELSE DbDoc(JoinPath(path, docId))
  ELSE IF Len(Split(path)) % 2 # 1
       THEN Thrown(OddSegmentsMsg)
       ELSE DbDoc(path)

deleteDocumentRef_NoPathCheck(path, docId) ==
  IF Truthy(docId)
  THEN IF Len(Split(path)) % 2 = 0
       THEN DbCollectionDoc(path, docId)
       ELSE DbDoc(JoinPath(path, docId))
  ELSE DbDoc(path)

deleteDocumentRef(path, docId) ==
  IF Truthy(docId)
  THEN IF Len(Split(path)) % 2 = 0
       THEN DbCollectionDoc(path, docId)
       ELSE DbDoc(JoinPath(path, docId))
  ELSE IF Len(Split(path)) % 2 # 1
       THEN Thrown(OddSegmentsMsg)
       ELSE DbDoc(path)

createDocumentRef_AlwaysNew(path, docId) ==
  IF Includes(path, Slash)
  THEN Thrown(AutoIdMsg)
  ELSE DbCollectionNewDoc(path)

createDocumentRef_NoSlashCheck(path, docId) ==
  IF Truthy(docId)
  THEN IF Len(Split(path)) % 2 = 0
       THEN DbCollectionDoc(path, docId)
       ELSE DbDoc(JoinPath(path, docId))
  ELSE DbCollectionNewDoc(path)

createDocumentRef(path, docId) ==
  IF Truthy(docId)
  THEN IF Len(Split(path)) % 2 = 0
       THEN DbCollectionDoc(path, docId)
       ELSE DbDoc(JoinPath(path, docId))
  ELSE IF Includes(path, Slash)
       THEN Thrown(AutoIdMsg)
       ELSE DbCollectionNewDoc(path)

queryDocumentsRef_AlwaysCollection(path) == DbCollection(path)

queryDocumentsRef(path) ==
  IF Len(Split(path)) % 2 = 1
  THEN DbCollection(path)
  ELSE DbDocParent(path)

Pending == [ctor |-> "pending", arg |-> << >>, id |-> NoId, err |-> "none"]

\* One resolution: the operation named runs its reference logic on (path, id).
Resolved(op, out) ==
  /\ rs.op = "none"
  /\ rs' = [rs EXCEPT !.op = op, !.out = out]
  /\ UNCHANGED <<sz, store, cl, tw, wr, cr, qs, dr>>

RsIdle == [op |-> "idle", path |-> << >>, id |-> NoId, out |-> Pending]

(***************************************************************************)
(* Values                                                                  *)
(***************************************************************************)
Undef == [t |-> "undefined"]
Null == [t |-> "null"]
Num(n) == [t |-> "number", n |-> n]
DateV == [t |-> "date"]
Arr(e) == [t |-> "array", e |-> e]
Map(m) == [t |-> "object", m |-> m]

EmptyRecord == [k \in {} |-> Undef]
Field(k, v) == [x \in {k} |-> v]

\* typeof value === 'object' (true of null, arrays and dates as well)
TypeofObject(v) == v.t \in {"null", "array", "date", "object"}
\* Array.isArray(value)
IsArray(v) == v.t = "array"
\* Object.prototype.toString.call(value)
ObjectToString(v) ==
  CASE v.t = "undefined" -> "[object Undefined]"
    [] v.t = "null" -> "[object Null]"
    [] v.t = "number" -> "[object Number]"
    [] v.t = "date" -> "[object Date]"
    [] v.t = "array" -> "[object Array]"
    [] v.t = "object" -> "[object Object]"

(***************************************************************************)
(* Sanitizer                                                               *)
(***************************************************************************)
removeUndefinedValues_Shallow(obj) ==
  [key \in {k \in DOMAIN obj : obj[k] # Undef} |-> obj[key]]

RECURSIVE removeUndefinedValues(_)
removeUndefinedValues(obj) ==
  [key \in {k \in DOMAIN obj : obj[k] # Undef} |->
     LET value == obj[key]
     IN  IF /\ value # Null
            /\ TypeofObject(value)
            /\ ~IsArray(value)
            /\ ObjectToString(value) = "[object Object]"
         THEN Map(removeUndefinedValues(value.m))
         ELSE value]

\* Sanitizer inputs: records over SKeys nested at most MaxDepth deep, whose
\* leaves are undefined, null, a date, or an array holding a record with an
\* undefined property.
SKeys == {<<"a">>, <<"b">>}
ArrV == Arr(<<Map(Field(<<"a">>, Undef))>>)
Leaves == {Undef, Null, DateV, ArrV}
RecordsOver(V) == UNION {[D -> V] : D \in SUBSET SKeys}

RECURSIVE ValuesOfDepth(_)
ValuesOfDepth(d) ==
  IF d = 0 THEN Leaves
  ELSE Leaves \cup {Map(m) : m \in RecordsOver(ValuesOfDepth(d - 1))}

SanitizerInputs == RecordsOver(ValuesOfDepth(MaxDepth - 1))

Sanitize ==
  /\ ~sz.done
  /\ sz' = [sz EXCEPT !.output = removeUndefinedValues(sz.input), !.done = TRUE]
  /\ UNCHANGED <<rs, store, cl, tw, wr, cr, qs, dr>>

SzIdle == [input |-> EmptyRecord, output |-> EmptyRecord, done |-> TRUE]

(***************************************************************************)
(* The document database behind the driver.  The handle is configured      *)
(* with ignoreUndefinedProperties (index.ts:27), so the driver drops       *)
(* undefined properties when it serializes a payload.  set() takes keys    *)
(* as literal field names; update() takes a dotted key as a field path.    *)
(***************************************************************************)
RECURSIVE Serialize(_)
Serialize(m) ==
  [k \in {x \in DOMAIN m : m[x].t # "undefined"} |->
     IF m[k].t = "object" THEN Map(Serialize(m[k].m)) ELSE m[k]]

\* The field at a path of nested names becomes v; maps on the way are kept,
\* anything else on the way is replaced by a map.
RECURSIVE SetPath(_, _, _)
SetPath(m, path, v) ==
  LET name == <<Head(path)>>
      rest == [k \in DOMAIN m \ {name} |-> m[k]]
  IN  IF Len(path) = 1
      THEN rest @@ Field(name, v)
      ELSE LET sub == IF name \in DOMAIN m /\ m[name].t = "object"
                      THEN m[name].m ELSE EmptyRecord
           IN  rest @@ Field(name, Map(SetPath(sub, Tail(path), v)))

SerializeValue(v) == IF v.t = "object" THEN Map(Serialize(v.m)) ELSE v

RECURSIVE ApplyUpdate(_, _, _)
ApplyUpdate(fields, payload, keys) ==
  IF keys = {} THEN fields
  ELSE LET k == CHOOSE x \in keys : TRUE
           next == IF payload[k].t = "undefined" THEN fields
                   ELSE SetPath(fields, k, SerializeValue(payload[k]))
       IN  ApplyUpdate(next, payload, keys \ {k})

\* set(data, {merge: true}): the payload's fields laid over the stored ones,
\* map into map.
RECURSIVE MergeFields(_, _)
MergeFields(fields, payload) ==
  [k \in DOMAIN fields \cup DOMAIN payload |->
     IF k \notin DOMAIN payload THEN fields[k]
     ELSE IF k \in DOMAIN fields /\ fields[k].t = "object" /\ payload[k].t = "object"
          THEN Map(MergeFields(fields[k].m, payload[k].m))
          ELSE payload[k]]

Absent == [exists |-> FALSE, data |-> EmptyRecord]
Present(fields) == [exists |-> TRUE, data |-> fields]

NoCall == [op |-> "none", payload |-> EmptyRecord]
Call(op, payload) == [op |-> op, payload |-> payload]

\* What a driver call does to the document: the document after it, and
\* whether the call threw.  update() of a missing document throws.
DriverApply(doc, call) ==
  CASE call.op = "set" ->
         [doc |-> Present(Serialize(call.payload)), threw |-> FALSE]
    [] call.op = "merge" ->
         [doc |-> Present(MergeFields(doc.data, Serialize(call.payload))),
          threw |-> FALSE]
    [] call.op = "update" ->
         IF doc.exists
         THEN [doc |-> Present(ApplyUpdate(doc.data, call.payload, DOMAIN call.payload)),
               threw |-> FALSE]
         ELSE [doc |-> doc, threw |-> TRUE]
    [] call.op = "delete" -> [doc |-> Absent, threw |-> FALSE]
    [] call.op = "none" -> [doc |-> doc, threw |-> FALSE]

\* The driver's calls and the errors it throws: update() of a missing
\* document is NOT_FOUND; any call may fail with UNAVAILABLE, and the calls
\* in dr do.
DriverFns == {"get", "set", "update", "delete"}
Unavailable == "UNAVAILABLE"
NotFound == "NOT_FOUND"

\* An awaited write: the document after it, whether it threw and with what
\* message.  A call that fails leaves the document as it was.
DriverCall(doc, call) ==
  LET fn == IF call.op = "merge" THEN "set" ELSE call.op
      r == DriverApply(doc, call)
  IN  IF fn \in dr
      THEN [fn |-> fn, doc |-> doc, threw |-> TRUE, message |-> Unavailable]
      ELSE [fn |-> fn, doc |-> r.doc, threw |-> r.threw,
            message |-> IF r.threw THEN NotFound ELSE ""]

\* catch (error) { throw new Error(`${prefix}${error.message}`) }: the
\* message of the error thrown on, by its parts.
NoError == << >>
Rethrown_WithoutCause(prefix, message) == prefix

Rethrown(prefix, message) == prefix \o <<message>>

\* upsert's catch: `${error}` is the error's name and its message.
RethrownWhole(prefix, message) == prefix \o <<"Error: ", message>>

(***************************************************************************)
(* Callers, documents and payloads                                         *)
(***************************************************************************)
Clients == {"c1", "c2"}
DocRefs == {"r1", "r2"}
Targets == {"r1"}      \* the reference the concurrent callers are handed

PKeys == {<<"a">>, <<"b", "x">>}          \* the keys "a" and "b.x"
PVals == {Num(1), Undef, Map(Field(<<"x">>, Undef))}
Payloads == {EmptyRecord} \cup {Field(k, v) : k \in PKeys, v \in PVals}

NoData == [given |-> FALSE, data |-> EmptyRecord]   \* createData omitted
Given(d) == [given |-> TRUE, data |-> d]
CreateArgs == {NoData, Given(EmptyRecord), Given(Field(<<"a">>, Num(2)))}

\* A document as the database may hold one before the first call: {a: 2, b: {y: 2}}
StoredDoc == Present(Field(<<"a">>, Num(2)) @@ Field(<<"b">>, Map(Field(<<"y">>, Num(2)))))
InitDocs == {Absent, StoredDoc}

ClIdle ==
  [pc |-> "idle", op |-> "none", ref |-> "none", data |-> EmptyRecord,
   createData |-> NoData, exists |-> FALSE, sent |-> NoCall, result |-> "none"]

(***************************************************************************)
(* upsertDocument and upsertDocumentWithDifferentData                      *)
(***************************************************************************)
\* The write upsertDocument makes once docSnap is in hand.
upsertDocumentCall_AlwaysSet(exists, data) == Call("set", data)

upsertDocumentCall_CreateMerges(exists, data) ==
  IF exists
  THEN Call("update", data)
  ELSE Call("merge", data)

upsertDocumentCall(exists, data) ==
  IF exists
  THEN Call("update", data)
  ELSE Call("set", data)

\* The write upsertDocumentWithDifferentData makes, none when it returns early.
upsertDocumentWithDifferentDataCall_CreateFromUpdateData(exists, updateData, createData) ==
  IF exists
  THEN Call("update", updateData)
  ELSE Call("set", IF createData.given THEN createData.data ELSE updateData)

upsertDocumentWithDifferentDataCall(exists, updateData, createData) ==
  IF exists
  THEN Call("update", updateData)
  ELSE IF createData.given
       THEN Call("set", createData.data)
       ELSE NoCall

\* await docRef.get(): the caller now holds docSnap.exists.
GetStep(c, op, ref, data, createData) ==
  /\ cl[c].pc = "idle"
  /\ cl' = [cl EXCEPT ![c] =
              [pc |-> "write", op |-> op, ref |-> ref, data |-> data,
               createData |-> createData, exists |-> store[ref].exists,
               sent |-> NoCall, result |-> "pending"]]
  /\ UNCHANGED store

\* The awaited write, and the catch that rethrows when it fails.
WriteStep_FallsBackToSet(c, call) ==
  LET r == DriverApply(store[cl[c].ref], call)
      set == DriverApply(store[cl[c].ref], Call("set", call.payload))
  IN  /\ store' = [store EXCEPT ![cl[c].ref] = IF r.threw THEN set.doc ELSE r.doc]
      /\ cl' = [cl EXCEPT ![c].pc = "done",
                          ![c].sent = call,
                          ![c].result = "ok"]

WriteStep(c, call) ==
  LET r == DriverApply(store[cl[c].ref], call)
  IN  /\ store' = [store EXCEPT ![cl[c].ref] = r.doc]
      /\ cl' = [cl EXCEPT ![c].pc = "done",
                          ![c].sent = call,
                          ![c].result = IF r.threw THEN "error" ELSE "ok"]

UpsertWriteStep(c) ==
  /\ cl[c].pc = "write"
  /\ cl[c].op = "upsert"
  /\ WriteStep(c, upsertDocumentCall(cl[c].exists, cl[c].data))

UpsertDistinctWriteStep(c) ==
  /\ cl[c].pc = "write"
  /\ cl[c].op = "upsertDistinct"
  /\ WriteStep(c, upsertDocumentWithDifferentDataCall(
                    cl[c].exists, cl[c].data, cl[c].createData))

ReturnStep(c) ==
  /\ cl[c].pc = "done"
  /\ cl' = [cl EXCEPT ![c] = ClIdle]
  /\ UNCHANGED store

UpsertGet(c) ==
  /\ \E ref \in Targets, data \in Payloads :
       GetStep(c, "upsert", ref, data, NoData)
  /\ UNCHANGED <<rs, sz, tw, wr, cr, qs, dr>>

UpsertWrite(c) == UpsertWriteStep(c) /\ UNCHANGED <<rs, sz, tw, wr, cr, qs, dr>>

UpsertDistinctGet(c) ==
  /\ \E ref \in Targets, updateData \in Payloads, createData \in CreateArgs :
       GetStep(c, "upsertDistinct", ref, updateData, createData)
  /\ UNCHANGED <<rs, sz, tw, wr, cr, qs, dr>>

UpsertDistinctWrite(c) == UpsertDistinctWriteStep(c) /\ UNCHANGED <<rs, sz, tw, wr, cr, qs, dr>>

Return(c) == ReturnStep(c) /\ UNCHANGED <<rs, sz, tw, wr, cr, qs, dr>>

TwIdle == [ref |-> "none", data |-> EmptyRecord, calls |-> << >>]

(***************************************************************************)
(* The payload each write operation hands to the driver                    *)
(***************************************************************************)
\* setCompoundedDocument: the sanitized data; the merge option is passed
\* only on the branch with a docId.
setCompoundedDocumentCall_AlwaysMerge(hasId, data, merge) ==
  Call("merge", removeUndefinedValues(data))

setCompoundedDocumentCall(hasId, data, merge) ==
  LET cleanedData == removeUndefinedValues(data)
      timestampedData == cleanedData
  IN  Call(IF hasId /\ merge THEN "merge" ELSE "set", timestampedData)

Lut == <<"lut">>

\* editDocument: {...data, lut: Date.now()}
editDocumentCall_NoLut(data, now) == Call("update", data)

editDocumentCall(data, now) ==
  Call("update", [k \in DOMAIN data \cup {Lut} |-> IF k = Lut THEN now ELSE data[k]])

Times == {Num(1000), Num(2000)}                  \* values of Date.now()
WPayloads == UNION {[D -> PVals] : D \in SUBSET PKeys}

Built(op, call) ==
  /\ wr.op = "none"
  /\ wr' = [wr EXCEPT !.op = op, !.sent = call]
  /\ UNCHANGED <<rs, sz, store, cl, tw, cr, qs, dr>>

WrIdle == [op |-> "idle", data |-> EmptyRecord, sent |-> NoCall]

(***************************************************************************)
(* Document addresses.  A reference built by the driver addresses the      *)
(* document at the segments of its path; a new document gets an id the     *)
(* driver generates.  docRef.id and docSnapshot.id are the last segment.   *)
(***************************************************************************)
RefAddress(ref, newId) ==
  CASE ref.ctor = "collection.doc" -> Split(ref.arg) \o <<ref.id>>
    [] ref.ctor = "doc" -> Split(ref.arg)
    [] ref.ctor = "collection.doc()" -> Split(ref.arg) \o <<newId>>

CollectionAddress(ref) ==
  CASE ref.ctor = "collection" -> Split(ref.arg)
    [] ref.ctor = "doc.parent" -> SubSeq(Split(ref.arg), 1, Len(Split(ref.arg)) - 1)

RefId(addr) == addr[Len(addr)]
Parent(addr) == SubSeq(addr, 1, Len(addr) - 1)

\* The documents the models address: a/d, a/e, a/g and b/d, in the order the
\* driver lists them (by id within a collection).
AddressOrder ==
  << << <<"a">>, <<"d">> >>, << <<"a">>, <<"e">> >>,
     << <<"a">>, <<"g">> >>, << <<"b">>, <<"d">> >> >>

\* collectionRef.get(): the snapshots of the documents that exist in the
\* collection, each with its id and its fields.
CollectionDocs(db, coll) ==
  LET InColl(a) == a \in DOMAIN db /\ Parent(a) = coll /\ db[a].exists
      Snap(a) == [id |-> RefId(a), data |-> db[a].data]
      addrs == SelectSeq(AddressOrder, InColl)
  IN  [i \in 1..Len(addrs) |-> Snap(addrs[i])]

(***************************************************************************)
(* setCompoundedDocument, getDocument, getDocuments, editDocument and      *)
(* deleteDocument, called one after the other by a single caller           *)
(***************************************************************************)
Id == <<"id">>
Str(s) == [t |-> "string", s |-> s]

\* {id: doc.id, ...doc.data()}: the stored fields are spread after the id.
DocumentRecord(id, data) ==
  [k \in {Id} \cup DOMAIN data |-> IF k \in DOMAIN data THEN data[k] ELSE Str(id)]

\* getDocument once the snapshot is in hand.
getDocumentResult(id, snapshot) ==
  IF ~snapshot.exists
  THEN Null
  ELSE DocumentRecord(id, snapshot.data)

\* getDocuments with a docId: a one-element array.
getDocumentsSingle_SkipsMissing(id, snapshot) ==
  IF snapshot.exists THEN <<DocumentRecord(id, snapshot.data)>> ELSE << >>

getDocumentsSingle(id, snapshot) ==
  <<IF snapshot.exists THEN DocumentRecord(id, snapshot.data) ELSE Null>>

\* getDocuments without a docId: querySnapshot.docs.map(...)
getDocumentsAll(docs) ==
  [i \in 1..Len(docs) |-> DocumentRecord(docs[i].id, docs[i].data)]

\* await docRef.update(updateData) and the catch that rethrows.
editDocumentOutcome_SetWhenMissing(doc, data, now) ==
  LET r == DriverApply(doc, editDocumentCall(data, now))
  IN  IF r.threw
      THEN [doc |-> Present(Serialize(editDocumentCall(data, now).payload)),
            error |-> NoError]
      ELSE [doc |-> r.doc, error |-> NoError]

editDocumentOutcome(doc, data, now) ==
  LET r == DriverCall(doc, editDocumentCall(data, now))
  IN  [doc |-> r.doc,
       error |-> IF r.threw
                 THEN Rethrown(<<"Failed to update document: ">>, r.message)
                 ELSE NoError]

\* await docRef.delete() and the catch that rethrows.
deleteDocumentOutcome_KeepsDocument(doc) == [doc |-> doc, error |-> NoError]

deleteDocumentOutcome(doc) ==
  LET r == DriverCall(doc, Call("delete", EmptyRecord))
  IN  [doc |-> r.doc,
       error |-> IF r.threw
                 THEN Rethrown(<<"Failed to delete document: ">>, r.message)
                 ELSE NoError]

A == <<"a">>
B == <<"b">>
D == <<"d">>
G == <<"g">>
CrudDocs == {<<A, D>>, <<A, G>>, <<B, D>>}
CrudPaths == {A, B, <<"a", Slash, "d">>}
CrudWritePaths == {A, <<"a", Slash, "d">>}
CrudIds == {NoId, D, G}
CrudWriteIds == {NoId, D}
AutoIds == {G, <<"h">>}           \* the ids collection(path).doc() may generate
CreatePayloads ==
  {EmptyRecord, Field(<<"a">>, Num(1)), Field(<<"a">>, Undef), Field(Id, Num(1))}
UpdatePayloads ==
  CreatePayloads \cup {Field(<<"b", "x">>, Num(1)), Field(Lut, Num(1))}
UpsertPayloads == {Field(<<"a">>, Num(1)), Field(Id, Num(1))}

\* The caller's record of its last call: the arguments, the reference the
\* call resolved, whether a document was there when the call was made, the
\* driver calls it awaited, the error it threw and what it returned.
Returned(op, path, docId, data, merge, ref, io, error, ret) ==
  cr' = [op |-> op, path |-> path, id |-> docId, data |-> data, merge |-> merge,
         ref |-> ref, existed |-> ref \in DOMAIN store /\ store[ref].exists,
         io |-> io, error |-> error,
         result |-> IF error = NoError THEN "ok" ELSE "error",
         ret |-> IF error = NoError THEN ret ELSE Undef]

NoRef == << >>

setCompoundedDocument(path, docId, data, merge) ==
  LET ref == setCompoundedDocumentRef(path, docId)
      prefix == <<"Failed to set document at path ", path, ": ">>
  IN  /\ IF ref.err # "none"
         THEN /\ Returned("create", path, docId, data, merge, NoRef, << >>,
                          Rethrown(prefix, ref.err), Undef)
              /\ UNCHANGED store
         ELSE \E newId \in AutoIds :
                LET docRef == RefAddress(ref, newId)
                    r == DriverCall(store[docRef],
                                    setCompoundedDocumentCall(Truthy(docId), data, merge))
                    finalDocId == IF Truthy(docId) THEN docId ELSE RefId(docRef)
                IN  /\ docRef \in DOMAIN store
                    /\ ref.ctor = "collection.doc()" => ~store[docRef].exists
                    /\ store' = [store EXCEPT ![docRef] = r.doc]
                    /\ Returned("create", path, docId, data, merge, docRef, <<"set">>,
                                IF r.threw THEN Rethrown(prefix, r.message) ELSE NoError,
                                [docRef |-> docRef, docId |-> finalDocId])
      /\ UNCHANGED <<rs, sz, cl, tw, wr, qs, dr>>

getDocument(path, docId) ==
  LET ref == getDocumentRef(path, docId)
      prefix == <<"Failed to get document: ">>
  IN  /\ IF ref.err # "none"
         THEN Returned("read", path, docId, EmptyRecord, FALSE, NoRef, << >>,
                       Rethrown(prefix, ref.err), Undef)
         ELSE LET docRef == RefAddress(ref, NoId)
              IN  /\ docRef \in DOMAIN store
                  /\ Returned("read", path, docId, EmptyRecord, FALSE, docRef, <<"get">>,
                              IF "get" \in dr THEN Rethrown(prefix, Unavailable) ELSE NoError,
                              getDocumentResult(RefId(docRef), store[docRef]))
      /\ UNCHANGED <<rs, sz, store, cl, tw, wr, qs, dr>>

getDocuments(path, docId) ==
  LET ref == getDocumentsRef(path, docId)
      error == IF "get" \in dr
               THEN Rethrown(<<"Failed to get documents: ">>, Unavailable) ELSE NoError
  IN  /\ IF Truthy(docId)
         THEN LET docRef == RefAddress(ref, NoId)
              IN  /\ docRef \in DOMAIN store
                  /\ Returned("list", path, docId, EmptyRecord, FALSE, docRef, <<"get">>,
                              error, getDocumentsSingle(RefId(docRef), store[docRef]))
         ELSE LET collectionRef == CollectionAddress(ref)
              IN  Returned("list", path, docId, EmptyRecord, FALSE, collectionRef, <<"get">>,
                           error, getDocumentsAll(CollectionDocs(store, collectionRef)))
      /\ UNCHANGED <<rs, sz, store, cl, tw, wr, qs, dr>>

editDocument(path, docId, data) ==
  LET ref == editDocumentRef(path, docId)
  IN  /\ IF ref.err # "none"
         THEN /\ Returned("update", path, docId, data, FALSE, NoRef, << >>,
                          Rethrown(<<"Failed to update document: ">>, ref.err), Undef)
              /\ UNCHANGED store
         ELSE \E now \in Times :
                LET docRef == RefAddress(ref, NoId)
                    r == editDocumentOutcome(store[docRef], data, now)
                IN  /\ docRef \in DOMAIN store
                    /\ store' = [store EXCEPT ![docRef] = r.doc]
                    /\ Returned("update", path, docId, data, FALSE, docRef, <<"update">>,
                                r.error, [docRef |-> docRef])
      /\ UNCHANGED <<rs, sz, cl, tw, wr, qs, dr>>

deleteDocument_WholeCollection(path, docId) ==
  LET ref == deleteDocumentRef(path, docId)
  IN  /\ IF ref.err # "none"
         THEN /\ Returned("delete", path, docId, EmptyRecord, FALSE, NoRef, << >>,
                          Rethrown(<<"Failed to delete document: ">>, ref.err), Undef)
              /\ UNCHANGED store
         ELSE LET docRef == RefAddress(ref, NoId)
              IN  /\ docRef \in DOMAIN store
                  /\ store' = [a \in DOMAIN store |->
                                 IF Parent(a) = Parent(docRef) THEN Absent ELSE store[a]]
                  /\ Returned("delete", path, docId, EmptyRecord, FALSE, docRef, <<"delete">>,
                              NoError, Undef)
      /\ UNCHANGED <<rs, sz, cl, tw, wr, qs, dr>>

deleteDocument(path, docId) ==
  LET ref == deleteDocumentRef(path, docId)
  IN  /\ IF ref.err # "none"
         THEN /\ Returned("delete", path, docId, EmptyRecord, FALSE, NoRef, << >>,
                          Rethrown(<<"Failed to delete document: ">>, ref.err), Undef)
              /\ UNCHANGED store
         ELSE LET docRef == RefAddress(ref, NoId)
                  r == deleteDocumentOutcome(store[docRef])
              IN  /\ docRef \in DOMAIN store
                  /\ store' = [store EXCEPT ![docRef] = r.doc]
                  /\ Returned("delete", path, docId, EmptyRecord, FALSE, docRef, <<"delete">>,
                              r.error, Undef)
      /\ UNCHANGED <<rs, sz, cl, tw, wr, qs, dr>>

\* createDocumentRef builds the reference and returns it: nothing is awaited.
createDocumentRefOnly(path, docId) ==
  LET ref == createDocumentRef(path, docId)
  IN  /\ IF ref.err # "none"
         THEN Returned("createRef", path, docId, EmptyRecord, FALSE, NoRef, << >>,
                       Rethrown(<<"Failed to create document reference: ">>, ref.err), Undef)
         ELSE \E newId \in AutoIds :
                Returned("createRef", path, docId, EmptyRecord, FALSE,
                         RefAddress(ref, newId), << >>, NoError,
                         [docRef |-> RefAddress(ref, newId)])
      /\ UNCHANGED <<rs, sz, store, cl, tw, wr, qs, dr>>

\* An upsert on a reference from createDocumentRef, with no other call
\* between its read and its write: docRef.get(), then the write on what
\* docSnap.exists says, and the catch around both.
UpsertOutcome(doc, call) ==
  LET prefix == <<"Failed to upsert document: ">>
      r == DriverCall(doc, call)
  IN  IF "get" \in dr
      THEN [doc |-> doc, io |-> <<"get">>, error |-> RethrownWhole(prefix, Unavailable)]
      ELSE [doc |-> r.doc,
            io |-> IF call = NoCall THEN <<"get">> ELSE <<"get", r.fn>>,
            error |-> IF r.threw THEN RethrownWhole(prefix, r.message) ELSE NoError]

upsertDocument(path, docId, data) ==
  LET ref == createDocumentRef(path, docId)
      docRef == RefAddress(ref, NoId)
      r == UpsertOutcome(store[docRef], upsertDocumentCall(store[docRef].exists, data))
  IN  /\ ref.ctor \in {"collection.doc", "doc"}
      /\ docRef \in DOMAIN store
      /\ store' = [store EXCEPT ![docRef] = r.doc]
      /\ Returned("upsert", path, docId, data, FALSE, docRef, r.io, r.error, Undef)
      /\ UNCHANGED <<rs, sz, cl, tw, wr, qs, dr>>

upsertDocumentWithDifferentData(path, docId, updateData, createData) ==
  LET ref == createDocumentRef(path, docId)
      docRef == RefAddress(ref, NoId)
      r == UpsertOutcome(store[docRef],
                         upsertDocumentWithDifferentDataCall(
                           store[docRef].exists, updateData, createData))
  IN  /\ ref.ctor \in {"collection.doc", "doc"}
      /\ docRef \in DOMAIN store
      /\ store' = [store EXCEPT ![docRef] = r.doc]
      /\ Returned("upsertDistinct", path, docId, updateData, createData.given,
                  docRef, r.io, r.error, Undef)
      /\ UNCHANGED <<rs, sz, cl, tw, wr, qs, dr>>

CrIdle ==
  [op |-> "idle", path |-> << >>, id |-> NoId, data |-> EmptyRecord, merge |-> FALSE,
   ref |-> NoRef, existed |-> FALSE, io |-> << >>, error |-> NoError,
   result |-> "none", ret |-> Undef]

(***************************************************************************)
(* queryDocuments: the query it composes, what the driver returns for it,  *)
(* and the result it hands back                                            *)
(***************************************************************************)
\* if (options.x): undefined, null, 0 and "" are falsy; arrays and objects
\* are truthy.
IsTruthy(v) == ~(v.t \in {"undefined", "null"} \/ v = Num(0) \/ v = Str(<< >>))

Age == <<"age">>
Cond(field, operator, value) == [field |-> field, operator |-> operator, value |-> value]
OrderBy(field, direction) == [t |-> "object", field |-> field, direction |-> direction]
Snapshot(ref, data) == [t |-> "snapshot", ref |-> ref, id |-> RefId(ref), data |-> data]

QueryCall(fn, arg) == [fn |-> fn, arg |-> arg]

\* The chain of driver calls queryDocuments makes before query.get().
queryDocumentsQuery_NoStartAfter(path, options) ==
  LET wheres == IF IsTruthy(options.where)
                THEN [i \in 1..Len(options.where.e) |-> QueryCall("where", options.where.e[i])]
                ELSE << >>
      order == IF IsTruthy(options.orderBy)
               THEN <<QueryCall("orderBy", options.orderBy)>> ELSE << >>
      startAt == IF IsTruthy(options.startAt)
                 THEN <<QueryCall("startAt", options.startAt)>> ELSE << >>
      endAt == IF IsTruthy(options.endAt)
               THEN <<QueryCall("endAt", options.endAt)>> ELSE << >>
      limit == IF IsTruthy(options.limit)
               THEN <<QueryCall("limit", options.limit)>> ELSE << >>
  IN  [ref |-> queryDocumentsRef(path),
       calls |-> wheres \o order \o startAt \o endAt \o limit]

queryDocumentsQuery_FirstWhereOnly(path, options) ==
  LET wheres == IF IsTruthy(options.where) /\ Len(options.where.e) > 0
                THEN <<QueryCall("where", options.where.e[1])>>
                ELSE << >>
      order == IF IsTruthy(options.orderBy)
               THEN <<QueryCall("orderBy", options.orderBy)>> ELSE << >>
      startAfter == IF IsTruthy(options.startAfter)
                    THEN <<QueryCall("startAfter", options.startAfter)>> ELSE << >>
      startAt == IF IsTruthy(options.startAt)
                 THEN <<QueryCall("startAt", options.startAt)>> ELSE << >>
      endAt == IF IsTruthy(options.endAt)
               THEN <<QueryCall("endAt", options.endAt)>> ELSE << >>
      limit == IF IsTruthy(options.limit)
               THEN <<QueryCall("limit", options.limit)>> ELSE << >>
  IN  [ref |-> queryDocumentsRef(path),
       calls |-> wheres \o order \o startAfter \o startAt \o endAt \o limit]

queryDocumentsQuery_ZeroApplied(path, options) ==
  LET wheres == IF IsTruthy(options.where)
                THEN [i \in 1..Len(options.where.e) |-> QueryCall("where", options.where.e[i])]
                ELSE << >>
      order == IF IsTruthy(options.orderBy)
               THEN <<QueryCall("orderBy", options.orderBy)>> ELSE << >>
      startAfter == IF IsTruthy(options.startAfter) \/ options.startAfter = Num(0)
                    THEN <<QueryCall("startAfter", options.startAfter)>> ELSE << >>
      startAt == IF IsTruthy(options.startAt) \/ options.startAt = Num(0)
                 THEN <<QueryCall("startAt", options.startAt)>> ELSE << >>
      endAt == IF IsTruthy(options.endAt) \/ options.endAt = Num(0)
               THEN <<QueryCall("endAt", options.endAt)>> ELSE << >>
      limit == IF IsTruthy(options.limit) \/ options.limit = Num(0)
               THEN <<QueryCall("limit", options.limit)>> ELSE << >>
  IN  [ref |-> queryDocumentsRef(path),
       calls |-> wheres \o order \o startAfter \o startAt \o endAt \o limit]

queryDocumentsQuery(path, options) ==
  LET wheres == IF IsTruthy(options.where)
                THEN [i \in 1..Len(options.where.e) |-> QueryCall("where", options.where.e[i])]
                ELSE << >>
      order == IF IsTruthy(options.orderBy)
               THEN <<QueryCall("orderBy", options.orderBy)>> ELSE << >>
      startAfter == IF IsTruthy(options.startAfter)
                    THEN <<QueryCall("startAfter", options.startAfter)>> ELSE << >>
      startAt == IF IsTruthy(options.startAt)
                 THEN <<QueryCall("startAt", options.startAt)>> ELSE << >>
      endAt == IF IsTruthy(options.endAt)
               THEN <<QueryCall("endAt", options.endAt)>> ELSE << >>
      limit == IF IsTruthy(options.limit)
               THEN <<QueryCall("limit", options.limit)>> ELSE << >>
  IN  [ref |-> queryDocumentsRef(path),
       calls |-> wheres \o order \o startAfter \o startAt \o endAt \o limit]

\* The driver's side of a query.  A where condition holds of a document
\* that has the field with a value in the relation to the condition's.
Matches(data, cond) ==
  /\ cond.field \in DOMAIN data
  /\ data[cond.field].t = "number"
  /\ CASE cond.operator = ">=" -> data[cond.field].n >= cond.value.n
       [] cond.operator = "<" -> data[cond.field].n < cond.value.n
       [] cond.operator = "==" -> data[cond.field].n = cond.value.n

\* A document's place in the order of a query: the value of the orderBy
\* field, then the document's id.
KeyOf(ref, data, order) ==
  [v |-> IF order.t = "object" THEN data[order.field].n ELSE 0,
   rank |-> CHOOSE i \in 1..Len(AddressOrder) : AddressOrder[i] = ref]

Precedes(x, y, order) ==
  IF order.t = "object" /\ order.direction = "desc"
  THEN x.v > y.v \/ (x.v = y.v /\ x.rank > y.rank)
  ELSE x.v < y.v \/ (x.v = y.v /\ x.rank < y.rank)

\* Whether a document comes after (before) a cursor: a snapshot cursor
\* stands at its document, a value cursor at a value of the orderBy field.
AfterCursor(key, cursor, order) ==
  IF cursor.t = "snapshot"
  THEN Precedes(KeyOf(cursor.ref, cursor.data, order), key, order)
  ELSE IF order.t = "object" /\ order.direction = "desc"
       THEN key.v < cursor.n ELSE key.v > cursor.n

BeforeCursor(key, cursor, order) ==
  IF cursor.t = "snapshot"
  THEN Precedes(key, KeyOf(cursor.ref, cursor.data, order), order)
  ELSE IF order.t = "object" /\ order.direction = "desc"
       THEN key.v > cursor.n ELSE key.v < cursor.n

\* The last call of the query with one of the names given, none when there is none.
LastCall(calls, fns) ==
  LET InFns(c) == c.fn \in fns
      made == SelectSeq(calls, InFns)
  IN  IF made = << >> THEN QueryCall("none", Undef) ELSE made[Len(made)]

\* query.get(): the snapshots of the documents of the collection that match
\* every where, within the cursors, in order, the first limit of them.  A
\* later start cursor replaces an earlier one.
QueryGet(db, query) ==
  LET coll == CollectionAddress(query.ref)
      calls == query.calls
      conds == {calls[i].arg : i \in {j \in 1..Len(calls) : calls[j].fn = "where"}}
      order == LastCall(calls, {"orderBy"}).arg
      start == LastCall(calls, {"startAfter", "startAt"})
      end == LastCall(calls, {"endAt"})
      limit == LastCall(calls, {"limit"})
      Key(a) == KeyOf(a, db[a].data, order)
      matching == {a \in DOMAIN db :
                     /\ Parent(a) = coll /\ db[a].exists
                     /\ \A c \in conds : Matches(db[a].data, c)
                     /\ order.t = "object" => order.field \in DOMAIN db[a].data}
      ranged == {a \in matching :
                   /\ start.fn = "startAfter" => AfterCursor(Key(a), start.arg, order)
                   /\ start.fn = "startAt" => ~BeforeCursor(Key(a), start.arg, order)
                   /\ end.fn = "endAt" => ~AfterCursor(Key(a), end.arg, order)}
      At(i) == CHOOSE a \in ranged :
                 Cardinality({b \in ranged : Precedes(Key(b), Key(a), order)}) = i - 1
      n == IF limit.fn = "limit" /\ limit.arg.n < Cardinality(ranged)
           THEN limit.arg.n ELSE Cardinality(ranged)
  IN  [i \in 1..n |-> Snapshot(At(i), db[At(i)].data)]

\* What queryDocuments returns for the snapshot of the query.
queryDocumentsResult_CursorsSwapped(docs) ==
  IF docs = << >>
  THEN [data |-> << >>, lastVisible |-> Undef, firstVisible |-> Undef]
  ELSE [data |-> [i \in 1..Len(docs) |-> DocumentRecord(docs[i].id, docs[i].data)],
        lastVisible |-> docs[1],
        firstVisible |-> docs[Len(docs)]]

queryDocumentsResult(docs) ==
  IF docs = << >>
  THEN [data |-> << >>, lastVisible |-> Undef, firstVisible |-> Undef]
  ELSE [data |-> [i \in 1..Len(docs) |-> DocumentRecord(docs[i].id, docs[i].data)],
        lastVisible |-> docs[Len(docs)],
        firstVisible |-> docs[1]]

MaxLimit == 2     \* largest limit option
Ages == {17, 20, 25}
QueryAddrs == {<<A, D>>, <<A, <<"e">> >>, <<A, G>>}
QueryDocs == {Absent} \cup {Present(Field(Age, Num(n))) : n \in Ages}
QueryPaths == {A, <<"a", Slash, "d">>}
AdultsOnly == Cond(Age, ">=", Num(18))
Under25 == Cond(Age, "<", Num(25))
Wheres == {Undef, Arr(<<AdultsOnly>>), Arr(<<AdultsOnly, Under25>>)}
Orders == {Undef, OrderBy(Age, "asc"), OrderBy(Age, "desc")}
Limits == {Undef} \cup {Num(n) : n \in 0..MaxLimit}
NoCursors == [startAfter |-> Undef, startAt |-> Undef, endAt |-> Undef]
Cursors ==
  {NoCursors,
   [NoCursors EXCEPT !.startAfter = Num(0)],
   [NoCursors EXCEPT !.startAfter = Num(20)],
   [NoCursors EXCEPT !.startAt = Num(20)],
   [NoCursors EXCEPT !.endAt = Num(20)],
   [NoCursors EXCEPT !.startAfter = Num(17), !.startAt = Num(20)],
   [NoCursors EXCEPT !.endAt = Num(0)],
   [startAfter |-> Null, startAt |-> Num(0), endAt |-> Str(<< >>)]}
Options(where, orderBy, limit, cursors) ==
  [where |-> where, orderBy |-> orderBy, limit |-> limit,
   startAfter |-> cursors.startAfter, startAt |-> cursors.startAt, endAt |-> cursors.endAt]
\* A value cursor is a value of the orderBy field: it comes with an orderBy.
QueryOptions ==
  LET CursorsWith(orderBy) ==
        IF orderBy = Undef
        THEN {NoCursors, [NoCursors EXCEPT !.startAfter = Num(0)]}
        ELSE Cursors
  IN  UNION {{Options(w, o, l, c) : w \in Wheres, l \in Limits, c \in CursorsWith(o)} :
               o \in Orders}

\* One call of queryDocuments: its result is appended to the caller's pages.
queryDocuments(path, options) ==
  /\ IF "get" \in dr
     THEN qs' = [qs EXCEPT !.op = "query",
                           !.error = Rethrown(<<"Failed to query documents: ">>, Unavailable)]
     ELSE qs' = [qs EXCEPT !.op = "query",
                           !.pages = Append(@, queryDocumentsResult(
                                                 QueryGet(store, queryDocumentsQuery(path, options))))]
  /\ UNCHANGED <<rs, sz, store, cl, tw, wr, cr, dr>>

QsIdle == [op |-> "idle", path |-> << >>, options |-> Options(Undef, Undef, Undef, NoCursors),
           pages |-> << >>, error |-> NoError]


(***************************************************************************)
(* Specifications                                                          *)
(***************************************************************************)
\* Concurrent callers upserting one document.
Init ==
  /\ rs = RsIdle
  /\ sz = SzIdle
  /\ store \in [DocRefs -> InitDocs]
  /\ cl = [c \in Clients |-> ClIdle]
  /\ tw = TwIdle
  /\ wr = WrIdle
  /\ cr = CrIdle
  /\ qs = QsIdle
  /\ dr = {}

Next ==
  \E c \in Clients :
    \/ UpsertGet(c)
    \/ UpsertWrite(c)
    \/ UpsertDistinctGet(c)
    \/ UpsertDistinctWrite(c)
    \/ Return(c)

Spec == Init /\ [][Next]_vars

\* One caller upserting while another caller deletes the document it upserts,
\* at any moment: before its read, between its read and its write, or after.
OtherDeletes(ref) ==
  /\ store' = [store EXCEPT ![ref] = deleteDocumentOutcome(store[ref]).doc]
  /\ UNCHANGED <<rs, sz, cl, tw, wr, cr, qs, dr>>

NextRace ==
  \/ UpsertGet("c1")
  \/ UpsertWrite("c1")
  \/ UpsertDistinctGet("c1")
  \/ UpsertDistinctWrite("c1")
  \/ Return("c1")
  \/ \E ref \in Targets : OtherDeletes(ref)

SpecRace == Init /\ [][NextRace]_vars

\* Address resolution of every operation on every path and id.
InitResolve ==
  /\ rs \in [op : {"none"}, path : Paths, id : Ids, out : {Pending}]
  /\ sz = SzIdle
  /\ store = [r \in DocRefs |-> Absent]
  /\ cl = [c \in Clients |-> ClIdle]
  /\ tw = TwIdle
  /\ wr = WrIdle
  /\ cr = CrIdle
  /\ qs = QsIdle
  /\ dr = {}

NextResolve ==
  \/ Resolved("create", setCompoundedDocumentRef(rs.path, rs.id))
  \/ Resolved("read", getDocumentRef(rs.path, rs.id))
  \/ Resolved("list", getDocumentsRef(rs.path, rs.id))
  \/ Resolved("update", editDocumentRef(rs.path, rs.id))
  \/ Resolved("delete", deleteDocumentRef(rs.path, rs.id))
  \/ Resolved("createRef", createDocumentRef(rs.path, rs.id))
  \* queryDocuments takes no docId
  \/ rs.id = NoId /\ Resolved("query", queryDocumentsRef(rs.path))

SpecResolve == InitResolve /\ [][NextResolve]_vars

\* The sanitizer on every input record.
InitSanitize ==
  /\ rs = RsIdle
  /\ sz \in [input : SanitizerInputs, output : {EmptyRecord}, done : {FALSE}]
  /\ store = [r \in DocRefs |-> Absent]
  /\ cl = [c \in Clients |-> ClIdle]
  /\ tw = TwIdle
  /\ wr = WrIdle
  /\ cr = CrIdle
  /\ qs = QsIdle
  /\ dr = {}

NextSanitize == Sanitize

SpecSanitize == InitSanitize /\ [][NextSanitize]_vars

\* One caller upserting the same data twice in a row, nobody else writing.
InitTwice ==
  /\ rs = RsIdle
  /\ sz = SzIdle
  /\ store \in [DocRefs -> InitDocs]
  /\ cl = [c \in Clients |-> ClIdle]
  /\ tw \in [ref : DocRefs, data : Payloads, calls : {<< >>}]
  /\ wr = WrIdle
  /\ cr = CrIdle
  /\ qs = QsIdle
  /\ dr = {}

TwiceGet ==
  /\ Len(tw.calls) < 2
  /\ GetStep("c1", "upsert", tw.ref, tw.data, NoData)
  /\ UNCHANGED <<rs, sz, tw, wr, cr, qs, dr>>

\* tw.calls: per completed call, the document before it and after it, and
\* whether every other document was left as it was.
TwiceWrite ==
  /\ UpsertWriteStep("c1")
  /\ tw' = [tw EXCEPT !.calls =
              Append(@, [before |-> store[tw.ref], after |-> store'[tw.ref],
                         othersKept |-> \A r \in DocRefs \ {tw.ref} : store'[r] = store[r],
                         result |-> cl'["c1"].result])]
  /\ UNCHANGED <<rs, sz, wr, cr, qs, dr>>

TwiceReturn == ReturnStep("c1") /\ UNCHANGED <<rs, sz, tw, wr, cr, qs, dr>>

NextTwice == TwiceGet \/ TwiceWrite \/ TwiceReturn

SpecTwice == InitTwice /\ [][NextTwice]_vars

\* Every write operation building its driver call from every payload.
InitWrites ==
  /\ rs = RsIdle
  /\ sz = SzIdle
  /\ store = [r \in DocRefs |-> Absent]
  /\ cl = [c \in Clients |-> ClIdle]
  /\ tw = TwIdle
  /\ wr \in [op : {"none"}, data : WPayloads, sent : {NoCall}]
  /\ cr = CrIdle
  /\ qs = QsIdle
  /\ dr = {}

NextWrites ==
  \/ \E hasId \in BOOLEAN, merge \in BOOLEAN :
       Built("create", setCompoundedDocumentCall(hasId, wr.data, merge))
  \/ \E now \in Times : Built("update", editDocumentCall(wr.data, now))
  \/ \E exists \in BOOLEAN : Built("upsert", upsertDocumentCall(exists, wr.data))
  \/ \E exists \in BOOLEAN, createData \in CreateArgs :
       Built("upsertDistinct",
             upsertDocumentWithDifferentDataCall(exists, wr.data, createData))

SpecWrites == InitWrites /\ [][NextWrites]_vars

\* One caller creating, reading, listing, updating, deleting and upserting
\* the documents a/d, a/g and b/d, one call after the other.
InitCrud ==
  /\ rs = RsIdle
  /\ sz = SzIdle
  /\ store \in [CrudDocs -> InitDocs]
  /\ cl = [c \in Clients |-> ClIdle]
  /\ tw = TwIdle
  /\ wr = WrIdle
  /\ cr = CrIdle
  /\ qs = QsIdle
  /\ dr = {}

NextCrud ==
  \/ \E path \in CrudWritePaths, docId \in CrudWriteIds, data \in CreatePayloads,
        merge \in BOOLEAN :
       setCompoundedDocument(path, docId, data, merge)
  \/ \E path \in CrudPaths, docId \in CrudIds : getDocument(path, docId)
  \/ \E path \in CrudPaths, docId \in CrudIds : getDocuments(path, docId)
  \/ \E path \in CrudWritePaths, docId \in CrudWriteIds, data \in UpdatePayloads :
       editDocument(path, docId, data)
  \/ \E path \in CrudWritePaths, docId \in CrudWriteIds : deleteDocument(path, docId)
  \/ \E path \in CrudWritePaths, docId \in CrudWriteIds, data \in UpsertPayloads :
       upsertDocument(path, docId, data)
  \/ \E path \in CrudWritePaths, docId \in CrudWriteIds : createDocumentRefOnly(path, docId)

SpecCrud == InitCrud /\ [][NextCrud]_vars

\* One call of any operation, on any of the stores of a/d, a/g and b/d, by a
\* caller whose driver fails none of its calls or the calls of one kind.
InitCalls ==
  /\ rs = RsIdle
  /\ sz = SzIdle
  /\ store \in [CrudDocs -> InitDocs]
  /\ cl = [c \in Clients |-> ClIdle]
  /\ tw = TwIdle
  /\ wr = WrIdle
  /\ cr = CrIdle
  /\ qs \in [op : {"none"}, path : {A, B},
             options : {Options(Undef, Undef, l, NoCursors) : l \in {Undef, Num(1)}},
             pages : {<< >>}, error : {NoError}]
  /\ dr \in {{}} \cup {{fn} : fn \in DriverFns}

NoCallYet == cr.op = "idle" /\ qs.op = "none"

NextCalls ==
  \/ /\ NoCallYet
     /\ \E path \in CrudWritePaths, docId \in CrudWriteIds, data \in CreatePayloads,
           merge \in BOOLEAN :
          setCompoundedDocument(path, docId, data, merge)
  \/ /\ NoCallYet
     /\ \E path \in CrudPaths, docId \in CrudIds : getDocument(path, docId)
  \/ /\ NoCallYet
     /\ \E path \in CrudPaths, docId \in CrudIds : getDocuments(path, docId)
  \/ /\ NoCallYet
     /\ \E path \in CrudWritePaths, docId \in CrudWriteIds, data \in UpdatePayloads :
          editDocument(path, docId, data)
  \/ /\ NoCallYet
     /\ \E path \in CrudWritePaths, docId \in CrudWriteIds : deleteDocument(path, docId)
  \/ /\ NoCallYet
     /\ \E path \in CrudWritePaths, docId \in CrudWriteIds, data \in UpsertPayloads :
          upsertDocument(path, docId, data)
  \/ /\ NoCallYet
     /\ \E path \in CrudWritePaths, docId \in CrudWriteIds, updateData \in UpsertPayloads,
           createData \in {NoData, Given(Field(<<"a">>, Num(2)))} :
          upsertDocumentWithDifferentData(path, docId, updateData, createData)
  \/ /\ NoCallYet
     /\ \E path \in CrudWritePaths, docId \in CrudWriteIds : createDocumentRefOnly(path, docId)
  \/ /\ NoCallYet
     /\ queryDocuments(qs.path, qs.options)

SpecCalls == InitCalls /\ [][NextCalls]_vars

\* One caller querying a collection of up to three documents, then asking
\* for the page after the one it got; nobody writes.
InitQuery ==
  /\ rs = RsIdle
  /\ sz = SzIdle
  /\ store \in [QueryAddrs \cup {<<B, D>>} ->  QueryDocs]
  /\ store[<<B, D>>] = Present(Field(Age, Num(20)))
  /\ cl = [c \in Clients |-> ClIdle]
  /\ tw = TwIdle
  /\ wr = WrIdle
  /\ cr = CrIdle
  /\ qs \in [op : {"none"}, path : QueryPaths, options : QueryOptions, pages : {<< >>},
             error : {NoError}]
  /\ dr = {}

Query ==
  /\ qs.pages = << >>
  /\ queryDocuments(qs.path, qs.options)

\* The next page: the same options with startAfter = lastVisible.
QueryNext ==
  /\ Len(qs.pages) = 1
  /\ qs.pages[1].lastVisible # Undef
  /\ queryDocuments(qs.path, [qs.options EXCEPT !.startAfter = qs.pages[1].lastVisible])

NextQuery == Query \/ QueryNext

SpecQuery == InitQuery /\ [][NextQuery]_vars



(***************************************************************************)
(* Properties of address resolution (SpecResolve)                          *)
(***************************************************************************)
\* The number of "/"-separated segments, counted from the separators.
SegmentCount(path) == 1 + Cardinality({i \in 1..Len(path) : path[i] = Slash})

PathAB == <<"a", Slash, "b">>          \* "a/b"
PathABA == <<"a", Slash, "b", Slash, "a">>   \* "a/b/a"

\* C1: with a non-empty id, create, read, list, update, delete and
\* createReferenceOnly all resolve a path of an even number of segments to
\* collection(path).doc(id) and a path of an odd number to doc(path + "/" + id).
C1_IdSuppliedResolution ==
  (rs.op \in {"create", "read", "list", "update", "delete", "createRef"} /\ Truthy(rs.id))
    => rs.out = IF SegmentCount(rs.path) % 2 = 0
                THEN DbCollectionDoc(rs.path, rs.id)
                ELSE DbDoc(JoinPath(rs.path, rs.id))

C1_Witness ==
  /\ rs.op = "read"
  /\ rs.path = PathAB
  /\ rs.id = <<"d">>
  /\ rs.out = DbCollectionDoc(PathAB, <<"d">>)

\* C2: without an id, create and createReferenceOnly fail with the auto-id
\* path error exactly when the path contains "/", and otherwise resolve to
\* collection(path).doc().
C2_AutoIdResolution ==
  (rs.op \in {"create", "createRef"} /\ ~Truthy(rs.id))
    => /\ (rs.out.err # "none") <=> (SegmentCount(rs.path) > 1)
       /\ rs.out.err # "none" => rs.out = Thrown(AutoIdMsg)
       /\ rs.out.err = "none" => rs.out = DbCollectionNewDoc(rs.path)

C2_Witness ==
  /\ rs.op = "create"
  /\ rs.id = NoId
  /\ rs.path = PathABA
  /\ rs.out = Thrown(AutoIdMsg)

\* C3: without an id, read, update and delete fail with the document path
\* error exactly when the path has an even number of segments, and otherwise
\* resolve to doc(path).
C3_BarePathResolution ==
  (rs.op \in {"read", "update", "delete"} /\ ~Truthy(rs.id))
    => /\ (rs.out.err # "none") <=> (SegmentCount(rs.path) % 2 = 0)
       /\ rs.out.err # "none" => rs.out = Thrown(OddSegmentsMsg)
       /\ rs.out.err = "none" => rs.out = DbDoc(rs.path)

C3_Witness ==
  /\ rs.op = "update"
  /\ rs.id = NoId
  /\ rs.path = PathAB
  /\ rs.out = Thrown(OddSegmentsMsg)

\* C4: without an id, list and query both target collection(path) for a path
\* of an odd number of segments and doc(path).parent for an even number, and
\* the two agree on every path.
C4_ListingResolution ==
  /\ (rs.op \in {"list", "query"} /\ ~Truthy(rs.id))
       => rs.out = IF SegmentCount(rs.path) % 2 = 1
                   THEN DbCollection(rs.path)
                   ELSE DbDocParent(rs.path)
  /\ getDocumentsRef(rs.path, NoId) = queryDocumentsRef(rs.path)

C4_Witness ==
  /\ rs.op = "query"
  /\ rs.path = PathAB
  /\ rs.out = DbDocParent(PathAB)

(***************************************************************************)
(* Properties of the sanitizer (SpecSanitize)                              *)
(***************************************************************************)
\* No undefined value on any path that runs through plain records only.
RECURSIVE NoUndefinedInPlain(_)
NoUndefinedInPlain(m) ==
  \A k \in DOMAIN m :
    /\ m[k].t # "undefined"
    /\ m[k].t = "object" => NoUndefinedInPlain(m[k].m)

\* An undefined value anywhere, inside arrays included.
RECURSIVE ContainsUndefined(_)
ContainsUndefined(v) ==
  \/ v.t = "undefined"
  \/ v.t = "object" /\ \E k \in DOMAIN v.m : ContainsUndefined(v.m[k])
  \/ v.t = "array" /\ \E i \in 1..Len(v.e) : ContainsUndefined(v.e[i])

\* Arrays and dates sit in the output where they sat in the input, unchanged.
RECURSIVE LeavesUnaltered(_, _)
LeavesUnaltered(in, out) ==
  /\ \A k \in DOMAIN out :
       /\ k \in DOMAIN in
       /\ out[k].t \in {"array", "date"} => in[k] = out[k]
       /\ out[k].t = "object" =>
            in[k].t = "object" /\ LeavesUnaltered(in[k].m, out[k].m)
  /\ \A k \in DOMAIN in :
       in[k].t \in {"array", "date"} => k \in DOMAIN out

\* C5 (as amended): the sanitizer's output holds no undefined value on any
\* path through plain records, and every array and date is the input's value
\* unchanged, an undefined value inside an array included.
C5_SanitizedThroughPlainRecords ==
  sz.done => /\ NoUndefinedInPlain(sz.output)
             /\ LeavesUnaltered(sz.input, sz.output)

\* C5 (as claimed): the output holds no undefined value at any depth, and
\* arrays and dates are unaltered.
C5_NoUndefinedAtAnyDepth ==
  sz.done => /\ ~ContainsUndefined(Map(sz.output))
             /\ LeavesUnaltered(sz.input, sz.output)

C5_Witness ==
  /\ sz.done
  /\ sz.input = Field(<<"a">>, Map(Field(<<"a">>, Undef) @@ Field(<<"b">>, ArrV)))
                  @@ Field(<<"b">>, DateV)
  /\ sz.output = Field(<<"a">>, Map(Field(<<"b">>, ArrV))) @@ Field(<<"b">>, DateV)

(***************************************************************************)
(* Properties of upsert (Spec, SpecTwice)                                  *)
(***************************************************************************)
\* C6: no payload handed to the driver's set or update holds a key whose
\* value is undefined inside a plain record.
C6_DriverPayloadsSanitized ==
  /\ wr.sent.op \in {"set", "merge", "update"} => NoUndefinedInPlain(wr.sent.payload)
  /\ \A c \in Clients :
       cl[c].sent.op \in {"set", "merge", "update"} => NoUndefinedInPlain(cl[c].sent.payload)

\* C7: after upsert(ref, data) twice in a row, there is one document at ref,
\* it is data merged into the prior state (keys read as field names or as
\* field paths), the second call changed nothing, and no other document
\* appeared or changed.
C7_UpsertTwiceIdempotent ==
  Len(tw.calls) = 2 =>
    LET first == tw.calls[1]
        second == tw.calls[2]
    IN  /\ first.result = "ok" /\ second.result = "ok"
        /\ second.after.exists
        /\ second.after = first.after
        /\ second.after.data \in
             {MergeFields(first.before.data, Serialize(tw.data)),
              ApplyUpdate(first.before.data, tw.data, DOMAIN tw.data)}
        /\ first.othersKept /\ second.othersKept

\* Both callers read the same document as missing and both then wrote it.
BothCreatedAfterSeeingAbsent ==
  /\ cl["c1"].ref = cl["c2"].ref
  /\ \A c \in Clients :
       /\ cl[c].pc = "done"
       /\ ~cl[c].exists
       /\ cl[c].result = "ok"
       /\ cl[c].sent.op # "none"

CreatePayloadOf(c) ==
  IF cl[c].op = "upsert" THEN cl[c].data ELSE cl[c].createData.data

\* C8: when two concurrent upserts both read the document as missing, both
\* take the create branch, and the document ends as the later writer's
\* payload alone: the earlier writer's fields are gone.
C8_LaterCreateReplacesEarlier ==
  BothCreatedAfterSeeingAbsent =>
    /\ \A c \in Clients : cl[c].sent = Call("set", CreatePayloadOf(c))
    /\ \E c \in Clients :
         store[cl[c].ref] = Present(Serialize(CreatePayloadOf(c)))

C8_Witness ==
  /\ BothCreatedAfterSeeingAbsent
  /\ cl["c1"].op = "upsert" /\ cl["c1"].data = Field(<<"a">>, Num(1))
  /\ cl["c2"].op = "upsert" /\ cl["c2"].data = Field(<<"b", "x">>, Num(1))
  /\ store["r1"] = Present(Field(<<"b", "x">>, Num(1)))

\* The stored fields a payload's keys do not name are the same after as before:
\* top-level fields no key starts with, and, under a key "h.n", the other
\* entries of the map h.
UnnamedFieldsKept(before, after, data) ==
  /\ \A name \in DOMAIN before :
       name \notin {<<Head(k)>> : k \in DOMAIN data}
         => name \in DOMAIN after /\ after[name] = before[name]
  /\ \A k \in DOMAIN data :
       LET h == <<Head(k)>>
       IN  (Len(k) = 2 /\ data[k].t # "undefined" /\ h \in DOMAIN before
              /\ before[h].t = "object")
             => /\ h \in DOMAIN after /\ after[h].t = "object"
                /\ \A n \in DOMAIN before[h].m \ {Tail(k)} :
                     n \in DOMAIN after[h].m /\ after[h].m[n] = before[h].m[n]

\* Every key of the payload with a defined value holds that value afterwards,
\* a key "h.n" as entry n of the map h.
NamedFieldsSet(after, data) ==
  \A k \in DOMAIN data :
    data[k].t # "undefined" =>
      LET h == <<Head(k)>>
      IN  IF Len(k) = 1
          THEN h \in DOMAIN after /\ after[h] = SerializeValue(data[k])
          ELSE /\ h \in DOMAIN after /\ after[h].t = "object"
               /\ Tail(k) \in DOMAIN after[h].m
               /\ after[h].m[Tail(k)] = SerializeValue(data[k])

C9_WriteOf(c) ==
  (cl[c].pc = "write" /\ cl[c].op = "upsert" /\ cl'[c].pc = "done") =>
    LET ref == cl[c].ref
        data == cl[c].data
    IN  IF cl[c].exists
        THEN /\ cl'[c].sent = Call("update", data)
             /\ cl'[c].result = "ok" =>
                  /\ store'[ref].exists
                  /\ UnnamedFieldsKept(store[ref].data, store'[ref].data, data)
                  /\ NamedFieldsSet(store'[ref].data, data)
        ELSE /\ cl'[c].sent = Call("set", data)
             /\ cl'[c].result = "ok"
             /\ store'[ref] = Present(Serialize(data))

\* C9: upsert picks its write from the existence read alone: update(data)
\* when the document was read as existing, which leaves the fields data does
\* not name as they were and sets the ones it names; set(data) when it was
\* read as missing, after which the stored document is data.
C9_UpsertBranchFromExistenceRead == [][\A c \in Clients : C9_WriteOf(c)]_vars

C9_Witness ==
  /\ cl["c1"].pc = "done" /\ cl["c1"].op = "upsert"
  /\ cl["c1"].exists /\ cl["c1"].result = "ok"
  /\ cl["c1"].data = Field(<<"b", "x">>, Num(1))
  /\ cl["c1"].sent.op = "update"
  /\ store["r1"] = Present(Field(<<"a">>, Num(2)) @@
                           Field(<<"b">>, Map(Field(<<"x">>, Num(1)) @@ Field(<<"y">>, Num(2)))))

C10_WriteOf(c) ==
  (cl[c].pc = "write" /\ cl[c].op = "upsertDistinct" /\ cl'[c].pc = "done") =>
    LET ref == cl[c].ref
        updateData == cl[c].data
        createData == cl[c].createData
    IN  IF cl[c].exists
        THEN /\ cl'[c].sent = Call("update", updateData)
             /\ cl'[c].result = "ok" =>
                  /\ UnnamedFieldsKept(store[ref].data, store'[ref].data, updateData)
                  /\ NamedFieldsSet(store'[ref].data, updateData)
        ELSE IF createData.given
        THEN /\ cl'[c].sent = Call("set", createData.data)
             /\ cl'[c].result = "ok"
             /\ store' = [store EXCEPT ![ref] = Present(Serialize(createData.data))]
        ELSE /\ cl'[c].sent = NoCall
             /\ cl'[c].result = "ok"
             /\ store' = store

AD == <<A, D>>
AG == <<A, G>>

\* C11: create with an explicit id on a document that exists stores the
\* sanitized payload in its place when merge is false and, when merge is
\* true, keeps every stored field the payload does not name and sets the
\* ones it names; every successful create returns the reference it wrote and
\* the id used: the explicit id when one was given, else the id the driver
\* generated for a document that was not there before.
C11_CreateReplacesOrMerges ==
  [][(cr'.op = "create" /\ cr'.result = "ok") =>
       LET docRef == cr'.ref
           payload == removeUndefinedValues(cr'.data)
       IN  /\ (store[docRef].exists /\ ~cr'.merge) => store'[docRef] = Present(payload)
           /\ (store[docRef].exists /\ cr'.merge) =>
                /\ store'[docRef].exists
                /\ UnnamedFieldsKept(store[docRef].data, store'[docRef].data, payload)
                /\ \A k \in DOMAIN payload :
                     k \in DOMAIN store'[docRef].data /\ store'[docRef].data[k] = payload[k]
           /\ cr'.ret.docRef = docRef
           /\ Parent(docRef) = Split(cr'.path)
           /\ IF Truthy(cr'.id)
              THEN cr'.ret.docId = cr'.id /\ RefId(docRef) = cr'.id
              ELSE /\ cr'.ret.docId = RefId(docRef)
                   /\ ~store[docRef].exists /\ store'[docRef].exists
     ]_vars

C11_Witness ==
  /\ cr.op = "create" /\ cr.result = "ok" /\ cr.merge /\ cr.existed
  /\ cr.id = D /\ cr.data = Field(<<"a">>, Num(1))
  /\ cr.ret = [docRef |-> AD, docId |-> D]
  /\ store[AD].data[<<"a">>] = Num(1)
  /\ <<"b">> \in DOMAIN store[AD].data

\* The record a read is claimed to return: the fields given, and id.
WithId(fields, id) ==
  [k \in DOMAIN fields \cup {Id} |-> IF k = Id THEN Str(id) ELSE fields[k]]

\* C12: a read of (path, thatId) that directly follows a successful
\* create(path, null, data) returning thatId returns the sanitized data plus
\* an id field equal to thatId.
C12_AutoIdCreateThenRead ==
  [][(/\ cr.op = "create" /\ cr.result = "ok" /\ cr.id = NoId
      /\ cr'.op = "read" /\ cr'.path = cr.path /\ cr'.id = cr.ret.docId) =>
       /\ cr'.result = "ok"
       /\ cr'.ret = WithId(removeUndefinedValues(cr.data), cr.ret.docId)
     ]_vars

\* The documents that exist in a collection.
DocsIn(coll) == {a \in DOMAIN store : Parent(a) = coll /\ store[a].exists}

\* C13: every record read or listed carries as id the last segment of the
\* address of its document.
C13_RecordIdIsTerminalSegment ==
  /\ (cr.op = "read" /\ cr.result = "ok" /\ cr.existed) =>
       cr.ret[Id] = Str(RefId(cr.ref))
  /\ (cr.op = "list" /\ Truthy(cr.id) /\ cr.existed) =>
       cr.ret[1][Id] = Str(RefId(cr.ref))
  /\ (cr.op = "list" /\ ~Truthy(cr.id)) =>
       /\ Len(cr.ret) = Cardinality(DocsIn(cr.ref))
       /\ {cr.ret[i][Id] : i \in 1..Len(cr.ret)} = {Str(RefId(a)) : a \in DocsIn(cr.ref)}

\* C14: no stored document has a field named id.
C14_NoStoredIdField ==
  \A a \in DOMAIN store : Id \notin DOMAIN store[a].data

\* Every field of the document after the update was there before or is
\* named by the payload, at the top level and inside a map a key "h.n" names.
NoOtherFieldAdded(before, after, data) ==
  /\ \A name \in DOMAIN after :
       name \in DOMAIN before \/ \E k \in DOMAIN data : name = <<Head(k)>>
  /\ \A k \in DOMAIN data :
       LET h == <<Head(k)>>
       IN  (Len(k) = 2 /\ h \in DOMAIN after /\ after[h].t = "object") =>
             \A n \in DOMAIN after[h].m :
               \/ n = Tail(k)
               \/ h \in DOMAIN before /\ before[h].t = "object" /\ n \in DOMAIN before[h].m

\* The payload without the key lut.
WithoutLut(data) == [k \in DOMAIN data \ {Lut} |-> data[k]]

\* What an update of an existing document leaves and adds, whatever it sets.
UpdateFrame(before, after, data) ==
  /\ UnnamedFieldsKept(before, after, data @@ Field(Lut, Undef))
  /\ NoOtherFieldAdded(before, after, data @@ Field(Lut, Undef))
  /\ Lut \in DOMAIN after /\ after[Lut] \in Times

\* C15 as stated: update of an existing document leaves the stored fields
\* partialData does not name as they were, sets every field it names to the
\* value given, sets lut to the write timestamp, and adds or removes nothing
\* else.
C15_UpdateSetsEveryNamedField ==
  [][(cr'.op = "update" /\ cr'.ref # NoRef /\ store[cr'.ref].exists) =>
       /\ cr'.result = "ok" /\ store'[cr'.ref].exists
       /\ UpdateFrame(store[cr'.ref].data, store'[cr'.ref].data, cr'.data)
       /\ NamedFieldsSet(store'[cr'.ref].data, cr'.data)
     ]_vars

\* C15, amended: as above, but a lut named in partialData is not set to the
\* value given: lut is always the write timestamp.
C15_UpdateSetsNamedFieldsAndLut ==
  [][(cr'.op = "update" /\ cr'.ref # NoRef /\ store[cr'.ref].exists) =>
       /\ cr'.result = "ok" /\ store'[cr'.ref].exists
       /\ UpdateFrame(store[cr'.ref].data, store'[cr'.ref].data, cr'.data)
       /\ NamedFieldsSet(store'[cr'.ref].data, WithoutLut(cr'.data))
     ]_vars

C15_Witness ==
  /\ cr.op = "update" /\ cr.result = "ok" /\ cr.existed
  /\ cr.data = Field(<<"b", "x">>, Num(1))
  /\ store[AD].data[<<"a">>] = Num(2)
  /\ store[AD].data[<<"b">>] = Map(Field(<<"x">>, Num(1)) @@ Field(<<"y">>, Num(2)))
  /\ store[AD].data[Lut] \in Times

\* C16: update of a document that does not exist throws, and the store is
\* as it was: the document is not created.
C16_UpdateOfMissingFails ==
  [][(cr'.op = "update" /\ cr'.ref # NoRef /\ ~store[cr'.ref].exists) =>
       /\ cr'.result = "error"
       /\ store' = store
     ]_vars

C16_Witness ==
  /\ cr.op = "update" /\ cr.ref = AD /\ ~cr.existed
  /\ cr.data = Field(<<"a">>, Num(1))
  /\ cr.result = "error"
  /\ ~store[AD].exists

\* C17: a delete that returns leaves no document at its address; a read of
\* an address with no document returns null; and an address with no document
\* gets one only by a create or an upsert that writes that address.
C17_DeletedStaysAbsentUntilCreated ==
  [][/\ (cr'.op = "delete" /\ cr'.result = "ok") => ~store'[cr'.ref].exists
     /\ (cr'.op = "read" /\ cr'.result = "ok" /\ ~store[cr'.ref].exists) =>
          cr'.ret = Null
     /\ \A a \in DOMAIN store :
          (~store[a].exists /\ store'[a].exists) =>
            cr'.op \in {"create", "upsert"} /\ cr'.ref = a
    ]_vars

C17_Witness ==
  /\ cr.op = "delete" /\ cr.result = "ok" /\ cr.existed
  /\ cr.ref = AD /\ ~store[AD].exists

\* The injective assignments of documents to the positions of a list.
OneToOne(n, docs) ==
  {f \in [1..n -> docs] : \A i, j \in 1..n : f[i] = f[j] => i = j}

\* A record carries the stored fields of the document, the id field aside.
RecordOf(rec, a) ==
  /\ DOMAIN rec \ {Id} = DOMAIN store[a].data \ {Id}
  /\ \A k \in DOMAIN rec \ {Id} : rec[k] = store[a].data[k]

AE == <<A, <<"e">> >>

\* The collection the caller's path resolves to, and its documents that
\* satisfy every where condition of the caller's options.
QueriedCollection == CollectionAddress(queryDocumentsRef(qs.path))
MatchingDocs ==
  {a \in DocsIn(QueriedCollection) :
     qs.options.where # Undef =>
       \A i \in 1..Len(qs.options.where.e) : Matches(store[a].data, qs.options.where.e[i])}

\* The documents behind the records of a page, in the page's order.
PageRefs(page) ==
  [i \in 1..Len(page.data) |-> QueriedCollection \o <<page.data[i][Id].s>>]
PageSet(page) == {PageRefs(page)[i] : i \in 1..Len(page.data)}

\* Document a is not after document b by the orderBy field.
NotAfter(a, b) ==
  LET f == qs.options.orderBy.field
  IN  IF qs.options.orderBy.direction = "desc"
      THEN store[a].data[f].n >= store[b].data[f].n
      ELSE store[a].data[f].n <= store[b].data[f].n

Smaller(m, n) == IF m < n THEN m ELSE n

\* A page holds documents that match, each once, as their records; with an
\* orderBy it is sorted.
PageOfMatching(page) ==
  /\ \A i, j \in 1..Len(page.data) : PageRefs(page)[i] = PageRefs(page)[j] => i = j
  /\ PageSet(page) \subseteq MatchingDocs
  /\ \A i \in 1..Len(page.data) : RecordOf(page.data[i], PageRefs(page)[i])
  /\ qs.options.orderBy # Undef =>
       \A i, j \in 1..Len(page.data) :
         i < j => NotAfter(PageRefs(page)[i], PageRefs(page)[j])

\* With an orderBy, no matching document outside the pages given comes
\* before a document of the page.
NoneSkipped(page, earlier) ==
  qs.options.orderBy # Undef =>
    \A a \in MatchingDocs \ (PageSet(page) \cup earlier), b \in PageSet(page) : NotAfter(b, a)

CursorsOmitted ==
  /\ qs.options.startAfter = Undef
  /\ qs.options.startAt = Undef
  /\ qs.options.endAt = Undef

\* C19 as stated: a query without cursors returns the documents of the
\* resolved collection that satisfy every where condition, sorted by the
\* orderBy field in its direction, cut to the first limit of them whenever a
\* limit is given.
C19_QueryFiltersSortsTruncates ==
  (Len(qs.pages) >= 1 /\ CursorsOmitted) =>
    LET page == qs.pages[1]
    IN  /\ PageOfMatching(page)
        /\ NoneSkipped(page, {})
        /\ Len(page.data) =
             IF qs.options.limit = Undef
             THEN Cardinality(MatchingDocs)
             ELSE Smaller(qs.options.limit.n, Cardinality(MatchingDocs))

\* C19, amended: as above for a limit of 1 or more; with limit 0, as with no
\* limit, every matching document is returned.
C19_QueryFiltersSortsTruncatesPositiveLimit ==
  (Len(qs.pages) >= 1 /\ CursorsOmitted) =>
    LET page == qs.pages[1]
    IN  /\ PageOfMatching(page)
        /\ NoneSkipped(page, {})
        /\ Len(page.data) =
             IF qs.options.limit \in {Undef, Num(0)}
             THEN Cardinality(MatchingDocs)
             ELSE Smaller(qs.options.limit.n, Cardinality(MatchingDocs))

\* age >= 18, order by age desc, limit 1 over ages 17, 20, 25
C19_Witness ==
  /\ store[AD].data = Field(Age, Num(17))
  /\ store[AE].data = Field(Age, Num(20))
  /\ store[AG].data = Field(Age, Num(25))
  /\ qs.path = A
  /\ qs.options = Options(Arr(<<AdultsOnly>>), OrderBy(Age, "desc"), Num(1), NoCursors)
  /\ Len(qs.pages) >= 1
  /\ qs.pages[1].data = <<DocumentRecord(G, Field(Age, Num(25)))>>

\* C20: with an orderBy, a limit k below the number N of documents of the
\* collection and no other cursor, the query repeated with startAfter =
\* lastVisible returns matching documents none of which is on the first
\* page, in order, none before a document of the first page and none
\* skipped: the next k, or as many as are left.
C20_NextPageFollowsWithoutOverlap ==
  (/\ Len(qs.pages) = 2
   /\ CursorsOmitted
   /\ qs.options.orderBy # Undef
   /\ qs.options.limit # Undef
   /\ qs.options.limit.n < Cardinality(DocsIn(QueriedCollection))) =>
    LET first == qs.pages[1]
        second == qs.pages[2]
        left == Cardinality(MatchingDocs) - Len(first.data)
    IN  /\ PageOfMatching(second)
        /\ PageSet(first) \cap PageSet(second) = {}
        /\ \A a \in PageSet(first), b \in PageSet(second) : NotAfter(a, b)
        /\ NoneSkipped(second, PageSet(first))
        /\ Len(second.data) = Smaller(qs.options.limit.n, left)

\* limit 1 over ages 20, 20, 25: the second page is the other age-20 document
C20_Witness ==
  /\ store[AD].data = Field(Age, Num(20))
  /\ store[AE].data = Field(Age, Num(20))
  /\ store[AG].data = Field(Age, Num(25))
  /\ qs.options = Options(Undef, OrderBy(Age, "asc"), Num(1), NoCursors)
  /\ Len(qs.pages) = 2
  /\ qs.pages[1].data = <<DocumentRecord(D, Field(Age, Num(20)))>>
  /\ qs.pages[2].data = <<DocumentRecord(<<"e">>, Field(Age, Num(20)))>>

\* The marker of a document: its snapshot as the store holds it.
MarkerOf(a) == Snapshot(a, store[a].data)

\* C21: a page without records has neither firstVisible nor lastVisible;
\* any other page has as firstVisible the snapshot of the document of its
\* first record and as lastVisible that of its last record, one and the
\* same snapshot when the page has a single record.
C21_CursorsOfPage ==
  \A p \in 1..Len(qs.pages) :
    LET page == qs.pages[p]
        n == Len(page.data)
    IN  IF n = 0
        THEN page = [data |-> << >>, lastVisible |-> Undef, firstVisible |-> Undef]
        ELSE /\ page.firstVisible = MarkerOf(PageRefs(page)[1])
             /\ page.lastVisible = MarkerOf(PageRefs(page)[n])
             /\ n = 1 => page.firstVisible = page.lastVisible

\* ages 17 and 20, order by age asc, limit 2: a page of two, then an empty one
C21_Witness ==
  /\ store[AD].data = Field(Age, Num(17))
  /\ store[AE].data = Field(Age, Num(20))
  /\ ~store[AG].exists
  /\ qs.options = Options(Undef, OrderBy(Age, "asc"), Num(2), NoCursors)
  /\ Len(qs.pages) = 2
  /\ qs.pages[1].firstVisible.id = D /\ qs.pages[1].lastVisible.id = <<"e">>
  /\ qs.pages[2].data = << >> /\ qs.pages[2].lastVisible = Undef

(***************************************************************************)
(* Bare paths: documents to some operations, collections to others         *)
(***************************************************************************)
\* read, update and delete take the path without an id as a document.
AcceptedAsDocument(path) ==
  /\ getDocumentRef(path, NoId) = DbDoc(path)
  /\ editDocumentRef(path, NoId) = DbDoc(path)
  /\ deleteDocumentRef(path, NoId) = DbDoc(path)

RejectedAsDocument(path) ==
  /\ getDocumentRef(path, NoId) = Thrown(OddSegmentsMsg)
  /\ editDocumentRef(path, NoId) = Thrown(OddSegmentsMsg)
  /\ deleteDocumentRef(path, NoId) = Thrown(OddSegmentsMsg)

\* C27: without an id, a path that read, update or delete resolved as a
\* document is one that list and query resolve to collection(path) itself,
\* and a path they rejected is one that list and query accept, as the parent
\* of doc(path); the other way round, a path list or query resolved to
\* collection(path) is accepted as a document by read, update and delete, and
\* one resolved to a parent is rejected by all three.  The first case is the
\* odd segment counts, the second the even ones.
C27_BarePathDocumentAndCollection ==
  ~Truthy(rs.id) =>
    /\ (rs.op \in {"read", "update", "delete"} /\ rs.out.err = "none") =>
         /\ rs.out = DbDoc(rs.path)
         /\ SegmentCount(rs.path) % 2 = 1
         /\ getDocumentsRef(rs.path, NoId) = DbCollection(rs.path)
         /\ queryDocumentsRef(rs.path) = DbCollection(rs.path)
    /\ (rs.op \in {"read", "update", "delete"} /\ rs.out.err # "none") =>
         /\ SegmentCount(rs.path) % 2 = 0
         /\ getDocumentsRef(rs.path, NoId) = DbDocParent(rs.path)
         /\ queryDocumentsRef(rs.path) = DbDocParent(rs.path)
    /\ (rs.op \in {"list", "query"} /\ rs.out = DbCollection(rs.path)) =>
         AcceptedAsDocument(rs.path)
    /\ (rs.op \in {"list", "query"} /\ rs.out # DbCollection(rs.path)) =>
         /\ rs.out = DbDocParent(rs.path)
         /\ RejectedAsDocument(rs.path)

C27_Witness ==
  /\ rs.op = "delete"
  /\ rs.id = NoId
  /\ rs.path = PathABA
  /\ rs.out = DbDoc(PathABA)
  /\ queryDocumentsRef(PathABA) = DbCollection(PathABA)

(***************************************************************************)
(* Falsy query options                                                     *)
(***************************************************************************)
\* The options with every falsy one left out.
Supplied(options) ==
  [f \in DOMAIN options |-> IF IsTruthy(options[f]) THEN options[f] ELSE Undef]

FalsyCursors ==
  /\ ~IsTruthy(qs.options.startAfter)
  /\ ~IsTruthy(qs.options.startAt)
  /\ ~IsTruthy(qs.options.endAt)

\* C28: a query returns what it returns with its falsy options left out;
\* when startAfter, startAt and endAt are each undefined, null, 0 or "", the
\* page is not cut by any of them: it holds matching documents in order from
\* the first on, all of them when limit is undefined or 0.
C28_FalsyOptionsNotApplied ==
  Len(qs.pages) >= 1 =>
    LET page == qs.pages[1]
    IN  /\ page = queryDocumentsResult(
                    QueryGet(store, queryDocumentsQuery(qs.path, Supplied(qs.options))))
        /\ FalsyCursors =>
             /\ PageOfMatching(page)
             /\ NoneSkipped(page, {})
             /\ Len(page.data) =
                  IF IsTruthy(qs.options.limit)
                  THEN Smaller(qs.options.limit.n, Cardinality(MatchingDocs))
                  ELSE Cardinality(MatchingDocs)

\* order by age desc with limit 0, startAfter null, startAt 0 and endAt ""
\* over ages 17, 20, 25: all three documents, 25 first
C28_Witness ==
  /\ store[AD].data = Field(Age, Num(17))
  /\ store[AE].data = Field(Age, Num(20))
  /\ store[AG].data = Field(Age, Num(25))
  /\ qs.path = A
  /\ qs.options = Options(Undef, OrderBy(Age, "desc"), Num(0),
                          [startAfter |-> Null, startAt |-> Num(0), endAt |-> Str(<< >>)])
  /\ Len(qs.pages) >= 1
  /\ Len(qs.pages[1].data) = 3
  /\ qs.pages[1].firstVisible.id = G

(***************************************************************************)
(* Single calls: what they await, what they throw, what they change        *)
(***************************************************************************)
WriteOps == {"create", "update", "delete", "upsert", "upsertDistinct"}
ReadOps == {"read", "list", "createRef"}
WriteFns == {"set", "update", "delete"}

\* C22: createDocumentRef awaits no driver call and changes no document,
\* whatever the driver would do; it throws exactly when create throws for
\* the path, and the reference it returns is the one create resolves for the
\* same path and id, a new document of collection(path) when the id is
\* omitted, which is not created.
C22_CreateRefOnlyResolves ==
  [][cr'.op = "createRef" =>
       LET ref == setCompoundedDocumentRef(cr'.path, cr'.id)
       IN  /\ store' = store
           /\ cr'.io = << >>
           /\ (cr'.result = "error") = (ref.err # "none")
           /\ cr'.result = "error" => cr'.error[Len(cr'.error)] = ref.err
           /\ cr'.result = "ok" =>
                /\ \E newId \in AutoIds : cr'.ref = RefAddress(ref, newId)
                /\ cr'.ret.docRef = cr'.ref
                /\ Truthy(cr'.id) => cr'.ref = RefAddress(ref, NoId)
                /\ ~Truthy(cr'.id) => Parent(cr'.ref) = Split(cr'.path)
    ]_vars

\* a reference to a new document a/g while set() would fail: a/g is not created
C22_Witness ==
  /\ cr.op = "createRef" /\ cr.path = A /\ cr.id = NoId
  /\ cr.result = "ok" /\ cr.ref = AG
  /\ ~store[AG].exists
  /\ dr = {"set"}

\* The driver call of the last call that failed, if one did: a call the
\* driver fails, or an update of a document that was not there.
FailedAt(i) == cr.io[i] \in dr \/ (cr.io[i] = "update" /\ ~cr.existed)
DriverFailed == \E i \in 1..Len(cr.io) : FailedAt(i)
Cause == IF \E i \in 1..Len(cr.io) : cr.io[i] \in dr THEN Unavailable ELSE NotFound

PathPreconditionFails(op, path, docId) ==
  /\ ~Truthy(docId)
  /\ \/ op = "create" /\ Includes(path, Slash)
     \/ op \in {"read", "update", "delete"} /\ SegmentCount(path) % 2 = 0

\* C25: a create, read, update or delete whose path precondition does not
\* hold throws without having awaited a driver call, and no document is
\* changed.
C25_FailedPreconditionNoIO ==
  [][PathPreconditionFails(cr'.op, cr'.path, cr'.id) =>
       /\ cr'.result = "error"
       /\ cr'.io = << >>
       /\ cr'.ref = NoRef
       /\ store' = store
    ]_vars

\* delete("a/d") without id, a/d being there
C25_Witness ==
  /\ cr.op = "delete" /\ cr.path = <<"a", Slash, "d">> /\ cr.id = NoId
  /\ cr.result = "error" /\ cr.io = << >>
  /\ store[AD].exists

\* C29: a step changes at most one document, the one at the address the
\* create, update, delete or upsert it is a step of resolved; a read, a list,
\* a query and createDocumentRef change none.
C29_OnlyTheAddressedDocument ==
  [][/\ \A a \in DOMAIN store :
          store'[a] # store[a] => cr'.op \in WriteOps /\ cr'.ref = a
     /\ cr'.op \in ReadOps => store' = store
     /\ qs' # qs => store' = store
    ]_vars

\* a/d deleted; a/g in the same collection and b/d in another are as they were
C29_Witness ==
  /\ cr.op = "delete" /\ cr.ref = AD /\ cr.existed
  /\ ~store[AD].exists
  /\ store[AG] = StoredDoc
  /\ store[<<B, D>>] = StoredDoc

(***************************************************************************)
(* One pair of path and id resolved by two calls in a row                  *)
(***************************************************************************)
\* What a call resolves its arguments to: a collection for a list without
\* an id, a document otherwise.
ResolvesCollection(op, docId) == op = "list" /\ ~Truthy(docId)
\* The calls that ask the driver for a new document: collection(path).doc().
AsksNewDocument(op, docId) == op \in {"create", "createRef"} /\ ~Truthy(docId)

SamePairResolvedTwice ==
  /\ cr.op # "idle"
  /\ cr'.path = cr.path /\ cr'.id = cr.id
  /\ cr.ref # NoRef /\ cr'.ref # NoRef
  /\ ResolvesCollection(cr'.op, cr'.id) = ResolvesCollection(cr.op, cr.id)

\* C24 as stated: two calls in a row that resolve the same path and id, the
\* id omitted or not, both to a document or both to a collection, resolve
\* the same reference, whatever the operations and the store.
C24_SamePairSameReference ==
  [][SamePairResolvedTwice => cr'.ref = cr.ref]_vars

\* C24, amended: the above, except that create and createDocumentRef
\* without an id resolve a document of collection(path) with an id the driver
\* generates, not the same from one call to the next.
C24_SamePairSameReferenceUnlessGenerated ==
  [][SamePairResolvedTwice =>
       IF AsksNewDocument(cr.op, cr.id) \/ AsksNewDocument(cr'.op, cr'.id)
       THEN (AsksNewDocument(cr.op, cr.id) /\ AsksNewDocument(cr'.op, cr'.id)) =>
              Parent(cr'.ref) = Parent(cr.ref)
       ELSE cr'.ref = cr.ref
    ]_vars

\* read("a", "d") finds {a: 1} at a/d: the document a create or an upsert
\* of "a", "d" stored is the one the read resolved
C24_Witness ==
  /\ cr.op = "read" /\ cr.path = A /\ cr.id = D
  /\ cr.ref = AD /\ cr.existed /\ cr.result = "ok"
  /\ store[AD] = Present(Field(<<"a">>, Num(1)))

(***************************************************************************)
(* An upsert whose document is deleted between its read and its write      *)
(***************************************************************************)
\* C26: an upsert that read its document as existing and writes when the
\* document is gone sends update(data), not set, also when createData is
\* given; the update fails, the upsert ends in an error, and the document is
\* still missing after it: nothing of the upsert's data is stored.
C26_DeletedBeforeWriteFails ==
  [][\A c \in Clients :
       (/\ cl[c].pc = "write" /\ cl'[c].pc = "done"
        /\ cl[c].exists /\ ~store[cl[c].ref].exists) =>
         /\ cl'[c].sent = Call("update", cl[c].data)
         /\ cl'[c].result = "error"
         /\ store'[cl[c].ref] = Absent
         /\ store' = store
    ]_vars

\* r1 was there when c1's upsert read it and is gone when its update fails
C26_Witness ==
  /\ cl["c1"].pc = "done" /\ cl["c1"].op = "upsert"
  /\ cl["c1"].ref = "r1" /\ cl["c1"].exists
  /\ cl["c1"].data = Field(<<"a">>, Num(1))
  /\ cl["c1"].sent.op = "update"
  /\ cl["c1"].result = "error"
  /\ ~store["r1"].exists

====
